---- MODULE Spec2Model ----
(***************************************************************************)
(* Model of edb/server/server.py: class Server.                            *)
(*                                                                         *)
(* The server runs on one cooperative event loop.  Every coroutine of the  *)
(* class is a thread of the model ("start" for start(), "stop" for stop(), *)
(* "ev" for the configuration-change handlers); pc[t] is the place where   *)
(* the coroutine stands.  A coroutine keeps the loop from one await that   *)
(* really suspends to the next one: the labels of Running are the places   *)
(* where a coroutine holds the loop, and no other coroutine takes a step   *)
(* while one stands there.                                                 *)
(***************************************************************************)
EXTENDS Integers, Sequences, FiniteSets, TLC

\* ---------------------------------------------------------------- bounds
MaxPort == 3          \* listener objects that can be constructed in one run
MaxCfgPorts == 2      \* 'ports' objects in the initial system configuration
MaxAuth == 2          \* 'auth' objects in the system configuration of Spec
MaxAuthRules == 3     \* 'auth' objects in the initial system configuration of SpecAuth
MaxWorker == 3        \* compiler workers that can be spawned in one run
MaxQuery == 2         \* fields in the query of the DSN of the connection spec

\* ---------------------------------------------------------------- values
Threads == {"start", "stop", "ev", "add_port", "auth", "compiler"}
Callers == {"start", "ev"}           \* the callers of _start_portconf

PortIds == 1..MaxPort

\* config.ConfigType objects of the 'ports' setting
PortConfs == {"conf_graphql", "conf_edgeql", "conf_other"}

protocol(portconf) ==
    CASE portconf = "conf_graphql" -> "graphql+http"
      [] portconf = "conf_edgeql"  -> "edgeql+http"
      [] OTHER                     -> "binary"

Users == {"alice", "bob"}
Databases == {"db1", "db2"}

\* config objects of the 'auth' setting
AuthObjects ==
    { [user |-> {"*"},      database |-> {"*"},   priority |-> 10, method |-> "M1"],
      [user |-> {"alice"},  database |-> {"*"},   priority |-> 1,  method |-> "M2"],
      [user |-> {"alice"},  database |-> {"db1"}, priority |-> 1,  method |-> "M3"],
      [user |-> {"bob", "alice"}, database |-> {"db2"}, priority |-> 5, method |-> "M4"] }

\* the 'auth' objects that the system configuration of Spec draws from
SomeAuthObjects == { a \in AuthObjects : a.database = {"*"} }

Settings == {"ports", "auth", "other"}
EvKinds == {"add", "rem", "set", "reset"}

\* results of a call: a return or an exception
NoRes == [kind |-> "none", who |-> 0]
Ok == [kind |-> "ok", who |-> 0]
Err(kind, who) == [kind |-> kind, who |-> who]
IsErr(r) == r.kind \notin {"none", "ok"}

NoFrame == [portconf |-> "none", suppress |-> FALSE, port |-> 0, ex |-> NoRes, ret |-> "none"]
NoEvent == [kind |-> "none", setting |-> "none", value |-> "none", auth |-> {}]
NoStop == [portconf |-> "none", port |-> 0, outcome |-> "none"]
NoAuthCall == [user |-> "none", database |-> "none", authlist |-> << >>, result |-> "none"]

\* compiler workers
Workers == 1..MaxWorker
DbVersions == {1, 2}
NoBinding == [dbname |-> "none", dbver |-> 0]
NoComp == [dbname |-> "none", dbver |-> 0, worker |-> 0, live |-> {}, ex |-> NoRes, ret |-> 0]

\* values of the connection spec: None, a str, an int (written in decimal), and
\* the mark of a key that the dict does not hold
None == [t |-> "NoneType", v |-> ""]
StrVal(s) == [t |-> "str", v |-> s]
IntVal(s) == [t |-> "int", v |-> s]
Absent == [t |-> "absent", v |-> ""]
\* the fields of the query of a DSN, between the '&'; eq: the field has an '='
QueryFields ==
    { [name |-> "host", value |-> "/run/pg", eq |-> TRUE],
      [name |-> "host", value |-> "", eq |-> TRUE],
      [name |-> "port", value |-> "5432", eq |-> TRUE],
      [name |-> "sslmode", value |-> "disable", eq |-> TRUE],
      [name |-> "port", value |-> "", eq |-> FALSE] }
Queries == UNION { [1..k -> QueryFields] : k \in 0..MaxQuery }
NoDsn == [present |-> FALSE, query |-> << >>]
PgConSpecs ==
    [ host : {Absent, StrVal("/run/pg")},
      port : {Absent, IntVal("5432"), StrVal("5433")},
      dsn : {NoDsn} \cup { [present |-> TRUE, query |-> q] : q \in Queries } ]
DefaultPgConSpec == [host |-> StrVal("/run/pg"), port |-> IntVal("5432"), dsn |-> NoDsn]
NoAddr == [kind |-> "none", path |-> ""]
Raised(kind) == [kind |-> kind, path |-> ""]

VARIABLES
    inited,           \* init() has completed: self._dbindex is set
    serving,          \* self._serving
    ports,            \* self._ports: sequence of listeners
    sys_conf_ports,   \* self._sys_conf_ports: dict portconf -> listener
    sys_auth,         \* self._sys_auth: tuple of auth objects
    cfgPorts,         \* get_sys_config()['ports'], in iteration order
    cfgAuth,          \* get_sys_config()['auth']
    lstate,           \* state of every listener object
    stopCalls,        \* number of stop() calls made on every listener
    nextPort,         \* next listener object to be constructed
    pc,               \* place of every coroutine
    res,              \* result of the last call of every coroutine
    tasks,            \* children of the TaskGroup of start() / stop() not yet finished
    gerr,             \* first error of a child of the TaskGroup
    loopConfs,        \* start(): sys_config['ports'] being iterated
    loopIdx,          \* start(): position in loopConfs
    built,            \* start(): listeners constructed by the current call
    spc,              \* frames of _start_portconf, one per caller
    stp,              \* frame of _stop_portconf
    ev,               \* configuration-change event being handled
    authCall,         \* get_auth_method call: its arguments, authlist and result
    overlap,          \* whether a call may begin while another one is suspended
    stale,            \* calls of start() and of handlers begun before the last stop() returned
    wstate,           \* state of every compiler worker
    wbound,           \* the database and version every compiler worker is bound to
    nextWorker,       \* next compiler worker to be spawned
    comp,             \* frame of new_compiler
    pg_con_spec,      \* self._cluster.get_connection_spec()
    pg_addr           \* self._pg_addr

vars == << inited, serving, ports, sys_conf_ports, sys_auth, cfgPorts, cfgAuth,
           lstate, stopCalls, nextPort, pc, res, tasks, gerr, loopConfs, loopIdx,
           built, spc, stp, ev, authCall, overlap, stale, wstate, wbound,
           nextWorker, comp, pg_con_spec, pg_addr >>

serverVars == << inited, serving, ports, sys_conf_ports, sys_auth >>
cfgVars == << cfgPorts, cfgAuth >>
portVars == << lstate, stopCalls, nextPort >>
groupVars == << tasks, gerr >>
loopVars == << loopConfs, loopIdx, built >>
callVars == << authCall >>
frameVars == << spc, stp, ev >>
poolVars == << wstate, wbound, nextWorker >>
pgVars == << pg_con_spec, pg_addr >>

\* ---------------------------------------------------------------- helpers
Range(s) == { s[i] : i \in 1..Len(s) }

\* sequences over S without repetition, of length at most n
DistinctSeqs(S, n) ==
    UNION { { s \in [1..k -> S] : \A i, j \in 1..k : i # j => s[i] # s[j] } : k \in 0..n }

\* the orders in which a collection can be iterated
Orderings(S) == { s \in [1..Cardinality(S) -> S] : Range(s) = S }

\* dict operations
Put(m, k, v) == [ x \in (DOMAIN m) \cup {k} |-> IF x = k THEN v ELSE m[x] ]
Pop(m, k) == [ x \in (DOMAIN m) \ {k} |-> m[x] ]
Values(m) == { m[k] : k \in DOMAIN m }

\* the compiler workers that are spawned and not closed
Live == { w \in Workers : wstate[w] \in {"spawned", "bound"} }

\* labels at which a coroutine holds the event loop
Running == {"loop", "spc_enter", "spc_ret", "stp_enter"}
Busy == \E t \in Threads : pc[t] \in Running
AllIdle == \A t \in Threads : pc[t] = "idle"

\* a call made from outside the class can begin
CanBegin == ~Busy /\ (overlap \/ AllIdle)

\* ---------------------------------------------------------------- auth
RECURSIVE sorted_by_priority(_)
InsertByPriority(s, a) ==
    LET k == Cardinality({ i \in 1..Len(s) : s[i].priority <= a.priority })
    IN  SubSeq(s, 1, k) \o << a >> \o SubSeq(s, k + 1, Len(s))
\* sorted(iterable, key=lambda a: a.priority): a stable sort
sorted_by_priority(s) ==
    IF s = << >> THEN << >>
    ELSE InsertByPriority(sorted_by_priority(SubSeq(s, 1, Len(s) - 1)), s[Len(s)])

\* the snapshot without the sort
populate_sys_auth_unsorted(auth) ==
    \E order \in Orderings(auth) : sys_auth' = order

\* auth is what get_sys_config().get('auth', ()) returns
populate_sys_auth(auth) ==
    \E order \in Orderings(auth) : sys_auth' = sorted_by_priority(order)

RECURSIVE scan_authlist(_, _, _, _)
scan_authlist(authlist, i, user, database) ==
    IF i > Len(authlist) THEN "None"
    ELSE LET auth == authlist[i]
             match == (user \in auth.user \/ "*" \in auth.user)
                      /\ (database \in auth.database \/ "*" \in auth.database)
         IN  IF match THEN auth.method
             ELSE scan_authlist(authlist, i + 1, user, database)

\* the scan without the default for an empty authlist
get_auth_method_nodefault(authlist, user, database) ==
    scan_authlist(authlist, 1, user, database)

get_auth_method(authlist, user, database) ==
    IF authlist = << >> THEN "SCRAM"
    ELSE scan_authlist(authlist, 1, user, database)

\* ---------------------------------------------------------------- _get_pgaddr
\* pg_con_spec.get(key)
dict_get(d, key) == IF d[key] = Absent THEN None ELSE d[key]

\* f'{value}'
format(value) == IF value = None THEN "None" ELSE value.v

\* the values parse_qs keeps for a name: those that are not blank, in order
query_values(query, name) ==
    LET kept == SelectSeq(query, LAMBDA f : f.name = name /\ f.value # "")
    IN  [ i \in 1..Len(kept) |-> kept[i].value ]

\* os.path.join(host, name) for a host without a trailing separator
path_join(host, name) ==
    IF host.t # "str" THEN Raised("TypeError")
    ELSE [kind |-> "addr", path |-> host.v \o "/" \o name]

\* lines 75-86: the outcomes of _get_pgaddr for a connection spec.  parse_qs with
\* strict_parsing raises ValueError on a field without '='; on an empty query it
\* raises or returns an empty dict, depending on the version of the library.
get_pgaddr(spec) ==
    IF spec.host = Absent /\ spec.dsn.present
    THEN LET query == spec.dsn.query
             host == query_values(query, "host")
             port == query_values(query, "port")
         IN  IF \E i \in 1..Len(query) : ~query[i].eq
             THEN {Raised("ValueError")}
             ELSE IF host = << >> \/ port = << >>
             THEN {Raised("TypeError")}
                  \cup (IF query = << >> THEN {Raised("ValueError")} ELSE {})
             ELSE {path_join(StrVal(host[Len(host)]),
                             ".s.PGSQL." \o format(StrVal(port[Len(port)])))}
    ELSE LET host == dict_get(spec, "host")
             port == dict_get(spec, "port")
         IN  {path_join(host, ".s.PGSQL." \o format(port))}

\* line 52 of __init__
set_pg_addr ==
    /\ pg_addr = NoAddr
    /\ pg_addr' \in get_pgaddr(pg_con_spec)
    /\ UNCHANGED << serverVars, cfgVars, portVars, pc, res, groupVars, loopVars,
                    frameVars, callVars, overlap, stale, comp, poolVars, pg_con_spec >>

\* ---------------------------------------------------------------- Init
\* the state __init__ leaves, the configuration and the connection spec apart
Constructed ==
    /\ inited = FALSE
    /\ serving = FALSE
    /\ ports = << >>
    /\ sys_conf_ports = << >>
    /\ sys_auth = << >>
    /\ lstate = [ l \in PortIds |-> "none" ]
    /\ stopCalls = [ l \in PortIds |-> 0 ]
    /\ nextPort = 1
    /\ pc = [ t \in Threads |-> "idle" ]
    /\ res = [ t \in Threads |-> NoRes ]
    /\ tasks = [ t \in {"start", "stop"} |-> {} ]
    /\ gerr = [ t \in {"start", "stop"} |-> NoRes ]
    /\ loopConfs = << >>
    /\ loopIdx = 0
    /\ built = {}
    /\ spc = [ t \in Callers |-> NoFrame ]
    /\ stp = NoStop
    /\ ev = NoEvent
    /\ authCall = NoAuthCall
    /\ stale = {}
    /\ wstate = [ w \in Workers |-> "none" ]
    /\ wbound = [ w \in Workers |-> NoBinding ]
    /\ nextWorker = 1
    /\ comp = NoComp

Init ==
    /\ inited = FALSE
    /\ serving = FALSE
    /\ ports = << >>
    /\ sys_conf_ports = << >>
    /\ sys_auth = << >>
    /\ cfgPorts \in DistinctSeqs(PortConfs, MaxCfgPorts)
    /\ cfgAuth \in { S \in SUBSET SomeAuthObjects : Cardinality(S) <= MaxAuth }
    /\ lstate = [ l \in PortIds |-> "none" ]
    /\ stopCalls = [ l \in PortIds |-> 0 ]
    /\ nextPort = 1
    /\ pc = [ t \in Threads |-> "idle" ]
    /\ res = [ t \in Threads |-> NoRes ]
    /\ tasks = [ t \in {"start", "stop"} |-> {} ]
    /\ gerr = [ t \in {"start", "stop"} |-> NoRes ]
    /\ loopConfs = << >>
    /\ loopIdx = 0
    /\ built = {}
    /\ spc = [ t \in Callers |-> NoFrame ]
    /\ stp = NoStop
    /\ ev = NoEvent
    /\ authCall = NoAuthCall
    /\ overlap = FALSE
    /\ stale = {}
    /\ wstate = [ w \in Workers |-> "none" ]
    /\ wbound = [ w \in Workers |-> NoBinding ]
    /\ nextWorker = 1
    /\ comp = NoComp
    /\ pg_con_spec = DefaultPgConSpec
    /\ pg_addr \in get_pgaddr(DefaultPgConSpec)

\* ---------------------------------------------------------------- init()
init ==
    /\ CanBegin
    /\ ~inited
    /\ inited' = TRUE
    /\ populate_sys_auth(cfgAuth)
    /\ UNCHANGED << serving, ports, sys_conf_ports, cfgVars, portVars, pc, res,
                    groupVars, loopVars, frameVars, callVars, overlap, stale,
                    comp, poolVars, pgVars >>

\* ---------------------------------------------------------------- add_port
\* add_port without the check of self._serving
add_port_unguarded ==
    /\ CanBegin
    /\ pc["add_port"] = "idle"
    /\ nextPort <= MaxPort
    /\ pc' = [ pc EXCEPT !["add_port"] = "done" ]
    /\ ports' = Append(ports, nextPort)
    /\ lstate' = [ lstate EXCEPT ![nextPort] = "created" ]
    /\ nextPort' = nextPort + 1
    /\ res' = [ res EXCEPT !["add_port"] = Ok ]
    /\ UNCHANGED << inited, serving, sys_conf_ports, sys_auth, cfgVars, stopCalls,
                    groupVars, loopVars, frameVars, authCall, overlap, stale,
                    comp, poolVars, pgVars >>

add_port ==
    /\ CanBegin
    /\ pc["add_port"] = "idle"
    /\ serving \/ nextPort <= MaxPort
    /\ pc' = [ pc EXCEPT !["add_port"] = "done" ]
    /\ IF serving
       THEN /\ res' = [ res EXCEPT !["add_port"] = Err("RuntimeError", 0) ]
            /\ UNCHANGED << ports, portVars >>
       ELSE /\ ports' = Append(ports, nextPort)
            /\ lstate' = [ lstate EXCEPT ![nextPort] = "created" ]
            /\ nextPort' = nextPort + 1
            /\ res' = [ res EXCEPT !["add_port"] = Ok ]
            /\ UNCHANGED stopCalls
    /\ UNCHANGED << inited, serving, sys_conf_ports, sys_auth, cfgVars,
                    groupVars, loopVars, frameVars, authCall, overlap, stale,
                    comp, poolVars, pgVars >>

\* ---------------------------------------------------------------- get_auth_method
GetAuthMethod ==
    /\ CanBegin
    /\ pc["auth"] = "idle"
    /\ \E user \in Users, database \in Databases :
         authCall' = [ user |-> user, database |-> database, authlist |-> sys_auth,
                       result |-> get_auth_method(sys_auth, user, database) ]
    /\ pc' = [ pc EXCEPT !["auth"] = "done" ]
    /\ res' = [ res EXCEPT !["auth"] = Ok ]
    /\ UNCHANGED << serverVars, cfgVars, portVars, groupVars, loopVars,
                    frameVars, overlap, stale,
                    comp, poolVars, pgVars >>

\* ---------------------------------------------------------------- new_compiler
\* line 92: spawn_worker() is called and awaited
new_compiler_begin(dbname, dbver) ==
    /\ CanBegin
    /\ pc["compiler"] = "idle"
    /\ nextWorker <= MaxWorker
    /\ comp' = [ NoComp EXCEPT !.dbname = dbname, !.dbver = dbver, !.live = Live ]
    /\ pc' = [ pc EXCEPT !["compiler"] = "nc_spawn" ]
    /\ UNCHANGED << serverVars, cfgVars, portVars, res, groupVars, loopVars,
                    frameVars, callVars, overlap, stale, poolVars, pgVars >>

\* The compiler manager has spawned a worker (ok), or could not and raised.
spawn_worker_done(ok) ==
    IF ok
    THEN /\ wstate' = [ wstate EXCEPT ![nextWorker] = "spawned" ]
         /\ nextWorker' = nextWorker + 1
         /\ UNCHANGED wbound
    ELSE UNCHANGED poolVars

\* The worker w has bound itself to the database and version: call('connect', ...).
worker_connect(w, dbname, dbver) ==
    /\ wstate' = [ wstate EXCEPT ![w] = "bound" ]
    /\ wbound' = [ wbound EXCEPT ![w] = [dbname |-> dbname, dbver |-> dbver] ]
    /\ UNCHANGED nextWorker

\* The worker w is closed: close().
worker_close(w) ==
    /\ wstate' = [ wstate EXCEPT ![w] = "closed" ]
    /\ wbound' = [ wbound EXCEPT ![w] = NoBinding ]
    /\ UNCHANGED nextWorker

\* lines 92-94: spawn_worker() returned, call('connect', ...) is awaited; or
\* spawn_worker() raised
new_compiler_spawned(ok) ==
    /\ pc["compiler"] = "nc_spawn"
    /\ ~Busy
    /\ spawn_worker_done(ok)
    /\ IF ok
       THEN /\ comp' = [ comp EXCEPT !.worker = nextWorker ]
            /\ pc' = [ pc EXCEPT !["compiler"] = "nc_connect" ]
            /\ UNCHANGED res
       ELSE /\ pc' = [ pc EXCEPT !["compiler"] = "done" ]
            /\ res' = [ res EXCEPT !["compiler"] = Err("SpawnError", 0) ]
            /\ UNCHANGED comp
    /\ UNCHANGED << serverVars, cfgVars, portVars, groupVars, loopVars,
                    frameVars, callVars, overlap, stale, pgVars >>

\* lines 94, 98: call('connect', ...) returned; the worker is returned
new_compiler_connected ==
    /\ pc["compiler"] = "nc_connect"
    /\ ~Busy
    /\ worker_connect(comp.worker, comp.dbname, comp.dbver)
    /\ comp' = [ comp EXCEPT !.ret = comp.worker ]
    /\ pc' = [ pc EXCEPT !["compiler"] = "done" ]
    /\ res' = [ res EXCEPT !["compiler"] = Ok ]
    /\ UNCHANGED << serverVars, cfgVars, portVars, groupVars, loopVars,
                    frameVars, callVars, overlap, stale, pgVars >>

\* new_compiler letting the error of call('connect', ...) through at once
new_compiler_connect_failed_noclose ==
    /\ pc["compiler"] = "nc_connect"
    /\ ~Busy
    /\ comp' = [ comp EXCEPT !.ex = Err("ConnectError", comp.worker) ]
    /\ pc' = [ pc EXCEPT !["compiler"] = "done" ]
    /\ res' = [ res EXCEPT !["compiler"] = Err("ConnectError", comp.worker) ]
    /\ UNCHANGED << serverVars, cfgVars, portVars, groupVars, loopVars,
                    frameVars, callVars, overlap, stale, poolVars, pgVars >>

\* lines 94-96: call('connect', ...) raised; close() is called and awaited
new_compiler_connect_failed ==
    /\ pc["compiler"] = "nc_connect"
    /\ ~Busy
    /\ comp' = [ comp EXCEPT !.ex = Err("ConnectError", comp.worker) ]
    /\ pc' = [ pc EXCEPT !["compiler"] = "nc_close" ]
    /\ UNCHANGED << serverVars, cfgVars, portVars, res, groupVars, loopVars,
                    frameVars, callVars, overlap, stale, poolVars, pgVars >>

\* lines 96-97: close() returned; the error of call('connect', ...) is raised
new_compiler_closed ==
    /\ pc["compiler"] = "nc_close"
    /\ ~Busy
    /\ worker_close(comp.worker)
    /\ pc' = [ pc EXCEPT !["compiler"] = "done" ]
    /\ res' = [ res EXCEPT !["compiler"] = comp.ex ]
    /\ UNCHANGED << serverVars, cfgVars, portVars, groupVars, loopVars,
                    frameVars, callVars, overlap, stale, comp, pgVars >>

\* The owner of a worker that new_compiler returned closes it.
release_worker(w) ==
    /\ CanBegin
    /\ wstate[w] = "bound"
    /\ w # comp.ret
    /\ worker_close(w)
    /\ UNCHANGED << serverVars, cfgVars, portVars, pc, res, groupVars, loopVars,
                    frameVars, callVars, overlap, stale, comp, pgVars >>

\* ---------------------------------------------------------------- TaskGroup
\* A child task of the group g, run for listener l, has finished; err is the
\* exception it raised (NoRes when it returned).  The group keeps its first error
\* and waits for every child.
taskgroup_child_done(g, l, err) ==
    /\ tasks' = [ tasks EXCEPT ![g] = @ \ {l} ]
    /\ gerr' = [ gerr EXCEPT ![g] = IF IsErr(@) \/ ~IsErr(err) THEN @ ELSE err ]

\* __aexit__ returns once no child is left; it raises the first error of a child.
taskgroup_exit_ready(g) == tasks[g] = {}
taskgroup_exit_result(g) == IF IsErr(gerr[g]) THEN gerr[g] ELSE Ok

\* ---------------------------------------------------------------- _start_portconf
\* _start_portconf without the test of lines 102-105
start_portconf_enter_nocheck(t) ==
    /\ pc[t] = "spc_enter"
    /\ nextPort <= MaxPort
    /\ LET portconf == spc[t].portconf IN
       IF protocol(portconf) \notin {"graphql+http", "edgeql+http"}
       THEN /\ pc' = [ pc EXCEPT ![t] = "done" ]
            /\ res' = [ res EXCEPT ![t] = Err("InvalidReferenceError", 0) ]
            /\ UNCHANGED << portVars, spc, built >>
       ELSE /\ spc' = [ spc EXCEPT ![t].port = nextPort ]
            /\ lstate' = [ lstate EXCEPT ![nextPort] = "starting" ]
            /\ nextPort' = nextPort + 1
            /\ built' = IF t = "start" THEN built \cup {nextPort} ELSE built
            /\ pc' = [ pc EXCEPT ![t] = "spc_start" ]
            /\ UNCHANGED << stopCalls, res >>
    /\ UNCHANGED << serverVars, cfgVars, groupVars, loopConfs, loopIdx, stp, ev,
                    callVars, overlap, stale,
                    comp, poolVars, pgVars >>

\* _start_portconf with the dispatch on the protocol inside the suppression: an
\* unknown protocol under suppress_errors is skipped and None is returned
start_portconf_enter_skip_unknown(t) ==
    /\ pc[t] = "spc_enter"
    /\ spc[t].portconf \in DOMAIN sys_conf_ports \/ nextPort <= MaxPort
    /\ LET portconf == spc[t].portconf IN
       IF portconf \in DOMAIN sys_conf_ports
       THEN /\ spc' = [ spc EXCEPT ![t].ret = "None" ]
            /\ pc' = [ pc EXCEPT ![t] = "spc_ret" ]
            /\ UNCHANGED << portVars, res, built >>
       ELSE IF protocol(portconf) \notin {"graphql+http", "edgeql+http"}
       THEN IF spc[t].suppress
            THEN /\ spc' = [ spc EXCEPT ![t].ret = "None" ]
                 /\ pc' = [ pc EXCEPT ![t] = "spc_ret" ]
                 /\ UNCHANGED << portVars, res, built >>
            ELSE /\ pc' = [ pc EXCEPT ![t] = "done" ]
                 /\ res' = [ res EXCEPT ![t] = Err("InvalidReferenceError", 0) ]
                 /\ UNCHANGED << portVars, spc, built >>
       ELSE /\ spc' = [ spc EXCEPT ![t].port = nextPort ]
            /\ lstate' = [ lstate EXCEPT ![nextPort] = "starting" ]
            /\ nextPort' = nextPort + 1
            /\ built' = IF t = "start" THEN built \cup {nextPort} ELSE built
            /\ pc' = [ pc EXCEPT ![t] = "spc_start" ]
            /\ UNCHANGED << stopCalls, res >>
    /\ UNCHANGED << serverVars, cfgVars, groupVars, loopConfs, loopIdx, stp, ev,
                    callVars, overlap, stale,
                    comp, poolVars, pgVars >>

\* lines 102-131: from the call to the await of port.start()
start_portconf_enter(t) ==
    /\ pc[t] = "spc_enter"
    /\ spc[t].portconf \in DOMAIN sys_conf_ports \/ nextPort <= MaxPort
    /\ LET portconf == spc[t].portconf IN
       IF portconf \in DOMAIN sys_conf_ports
       THEN /\ spc' = [ spc EXCEPT ![t].ret = "None" ]
            /\ pc' = [ pc EXCEPT ![t] = "spc_ret" ]
            /\ UNCHANGED << portVars, res, built >>
       ELSE IF protocol(portconf) \notin {"graphql+http", "edgeql+http"}
       THEN /\ pc' = [ pc EXCEPT ![t] = "done" ]
            /\ res' = [ res EXCEPT ![t] = Err("InvalidReferenceError", 0) ]
            /\ UNCHANGED << portVars, spc, built >>
       ELSE /\ spc' = [ spc EXCEPT ![t].port = nextPort ]
            /\ lstate' = [ lstate EXCEPT ![nextPort] = "starting" ]
            /\ nextPort' = nextPort + 1
            /\ built' = IF t = "start" THEN built \cup {nextPort} ELSE built
            /\ pc' = [ pc EXCEPT ![t] = "spc_start" ]
            /\ UNCHANGED << stopCalls, res >>
    /\ UNCHANGED << serverVars, cfgVars, groupVars, loopConfs, loopIdx, stp, ev,
                    callVars, overlap, stale,
                    comp, poolVars, pgVars >>

\* lines 131, 140-144: port.start() returned
start_portconf_started(t) ==
    /\ pc[t] = "spc_start"
    /\ ~Busy
    /\ lstate' = [ lstate EXCEPT ![spc[t].port] = "started" ]
    /\ sys_conf_ports' = Put(sys_conf_ports, spc[t].portconf, spc[t].port)
    /\ spc' = [ spc EXCEPT ![t].ret = "port" ]
    /\ pc' = [ pc EXCEPT ![t] = "spc_ret" ]
    /\ UNCHANGED << inited, serving, ports, sys_auth, cfgVars, stopCalls, nextPort,
                    res, groupVars, loopVars, stp, ev, callVars, overlap, stale,
                    comp, poolVars, pgVars >>

\* lines 131-133: port.start() raised; port.stop() is called and awaited
start_portconf_failed(t) ==
    /\ pc[t] = "spc_start"
    /\ ~Busy
    /\ lstate' = [ lstate EXCEPT ![spc[t].port] = "stopping" ]
    /\ stopCalls' = [ stopCalls EXCEPT ![spc[t].port] = @ + 1 ]
    /\ spc' = [ spc EXCEPT ![t].ex = Err("StartError", spc[t].port) ]
    /\ pc' = [ pc EXCEPT ![t] = "spc_cleanup" ]
    /\ UNCHANGED << serverVars, cfgVars, nextPort, res, groupVars, loopVars, stp, ev,
                    callVars, overlap, stale,
                    comp, poolVars, pgVars >>

\* lines 133-139, 143-144: the cleanup port.stop() returned (ok) or raised (~ok)
start_portconf_cleanup(t, ok) ==
    /\ pc[t] = "spc_cleanup"
    /\ ~Busy
    /\ lstate' = [ lstate EXCEPT ![spc[t].port] = IF ok THEN "stopped" ELSE "stopfailed" ]
    /\ IF ~ok
       THEN /\ pc' = [ pc EXCEPT ![t] = "done" ]
            /\ res' = [ res EXCEPT ![t] = Err("StopError", spc[t].port) ]
            /\ UNCHANGED << sys_conf_ports, spc >>
       ELSE IF spc[t].suppress
       THEN /\ sys_conf_ports' = Put(sys_conf_ports, spc[t].portconf, spc[t].port)
            /\ spc' = [ spc EXCEPT ![t].ret = "port" ]
            /\ pc' = [ pc EXCEPT ![t] = "spc_ret" ]
            /\ UNCHANGED res
       ELSE /\ pc' = [ pc EXCEPT ![t] = "done" ]
            /\ res' = [ res EXCEPT ![t] = spc[t].ex ]
            /\ UNCHANGED << sys_conf_ports, spc >>
    /\ UNCHANGED << inited, serving, ports, sys_auth, cfgVars, stopCalls, nextPort,
                    groupVars, loopVars, stp, ev, callVars, overlap, stale,
                    comp, poolVars, pgVars >>

\* ---------------------------------------------------------------- start()
\* lines 216-227: the children of the group are created for the static ports;
\* leaving a group that has no child does not suspend
start_begin ==
    /\ CanBegin
    /\ pc["start"] = "idle"
    /\ inited
    /\ ~serving
    /\ nextPort + Len(cfgPorts) - 1 <= MaxPort
    /\ tasks' = [ tasks EXCEPT !["start"] = Range(ports) ]
    /\ gerr' = [ gerr EXCEPT !["start"] = NoRes ]
    /\ built' = {}
    /\ IF ports = << >>
       THEN /\ loopConfs' = cfgPorts
            /\ loopIdx' = 1
            /\ pc' = [ pc EXCEPT !["start"] = "loop" ]
       ELSE /\ pc' = [ pc EXCEPT !["start"] = "group" ]
            /\ UNCHANGED << loopConfs, loopIdx >>
    /\ stale' = IF pc["stop"] = "group" THEN stale \cup {"start"} ELSE stale \ {"start"}
    /\ UNCHANGED << serverVars, cfgVars, portVars, res, frameVars, callVars, overlap,
                    comp, poolVars, pgVars >>

\* line 223: the task of port.start() runs to its end
start_task(l, ok) ==
    /\ pc["start"] = "group"
    /\ ~Busy
    /\ l \in tasks["start"]
    /\ lstate' = [ lstate EXCEPT ![l] = IF ok THEN "started" ELSE "startfailed" ]
    /\ taskgroup_child_done("start", l, IF ok THEN NoRes ELSE Err("StartError", l))
    /\ UNCHANGED << serverVars, cfgVars, stopCalls, nextPort, pc, res, loopVars,
                    frameVars, callVars, overlap, stale,
                    comp, poolVars, pgVars >>

\* start() going on to the configured ports whatever the group raised
start_group_exit_ignore_error ==
    /\ pc["start"] = "group"
    /\ ~Busy
    /\ taskgroup_exit_ready("start")
    /\ loopConfs' = cfgPorts
    /\ loopIdx' = 1
    /\ pc' = [ pc EXCEPT !["start"] = "loop" ]
    /\ UNCHANGED << serverVars, cfgVars, portVars, res, groupVars, built, frameVars,
                    callVars, overlap, stale,
                    comp, poolVars, pgVars >>

\* lines 221-227: the group is left; sys_config['ports'] is read
start_group_exit ==
    /\ pc["start"] = "group"
    /\ ~Busy
    /\ taskgroup_exit_ready("start")
    /\ IF IsErr(taskgroup_exit_result("start"))
       THEN /\ pc' = [ pc EXCEPT !["start"] = "done" ]
            /\ res' = [ res EXCEPT !["start"] = taskgroup_exit_result("start") ]
            /\ UNCHANGED << loopConfs, loopIdx >>
       ELSE /\ loopConfs' = cfgPorts
            /\ loopIdx' = 1
            /\ pc' = [ pc EXCEPT !["start"] = "loop" ]
            /\ UNCHANGED res
    /\ UNCHANGED << serverVars, cfgVars, portVars, groupVars, built, frameVars,
                    callVars, overlap, stale,
                    comp, poolVars, pgVars >>

\* lines 227-230: next portconf of the loop, or the end of start()
start_loop ==
    /\ pc["start"] = "loop"
    /\ IF loopIdx > Len(loopConfs)
       THEN /\ serving' = TRUE
            /\ pc' = [ pc EXCEPT !["start"] = "done" ]
            /\ res' = [ res EXCEPT !["start"] = Ok ]
            /\ UNCHANGED spc
       ELSE /\ spc' = [ spc EXCEPT !["start"] =
                          [ NoFrame EXCEPT !.portconf = loopConfs[loopIdx],
                                           !.suppress = TRUE ] ]
            /\ pc' = [ pc EXCEPT !["start"] = "spc_enter" ]
            /\ UNCHANGED << serving, res >>
    /\ UNCHANGED << inited, ports, sys_conf_ports, sys_auth, cfgVars, portVars,
                    groupVars, loopVars, stp, ev, callVars, overlap, stale,
                    comp, poolVars, pgVars >>

\* line 228: _start_portconf returned to the loop
start_loop_next ==
    /\ pc["start"] = "spc_ret"
    /\ loopIdx' = loopIdx + 1
    /\ pc' = [ pc EXCEPT !["start"] = "loop" ]
    /\ UNCHANGED << serverVars, cfgVars, portVars, res, groupVars, loopConfs, built,
                    frameVars, callVars, overlap, stale,
                    comp, poolVars, pgVars >>

\* ---------------------------------------------------------------- stop()
\* stop() without the loop over self._sys_conf_ports.values()
stop_begin_static_only ==
    /\ CanBegin
    /\ pc["stop"] = "idle"
    /\ serving' = FALSE
    /\ tasks' = [ tasks EXCEPT !["stop"] = Range(ports) ]
    /\ gerr' = [ gerr EXCEPT !["stop"] = NoRes ]
    /\ ports' = << >>
    /\ sys_conf_ports' = << >>
    /\ IF tasks'["stop"] = {}
       THEN /\ pc' = [ pc EXCEPT !["stop"] = "done" ]
            /\ res' = [ res EXCEPT !["stop"] = Ok ]
       ELSE /\ pc' = [ pc EXCEPT !["stop"] = "group" ]
            /\ UNCHANGED res
    /\ stale' = { t \in Callers : pc[t] # "idle" }
    /\ UNCHANGED << inited, sys_auth, cfgVars, portVars, loopVars, frameVars,
                    callVars, overlap, comp, poolVars, pgVars >>

\* lines 232-241: the body of the group; it does not suspend, and neither does
\* leaving a group that has no child
stop_begin ==
    /\ CanBegin
    /\ pc["stop"] = "idle"
    /\ serving' = FALSE
    /\ tasks' = [ tasks EXCEPT !["stop"] = Range(ports) \cup Values(sys_conf_ports) ]
    /\ gerr' = [ gerr EXCEPT !["stop"] = NoRes ]
    /\ ports' = << >>
    /\ sys_conf_ports' = << >>
    /\ IF tasks'["stop"] = {}
       THEN /\ pc' = [ pc EXCEPT !["stop"] = "done" ]
            /\ res' = [ res EXCEPT !["stop"] = Ok ]
       ELSE /\ pc' = [ pc EXCEPT !["stop"] = "group" ]
            /\ UNCHANGED res
    /\ stale' = { t \in Callers : pc[t] # "idle" }
    /\ UNCHANGED << inited, sys_auth, cfgVars, portVars, loopVars, frameVars,
                    callVars, overlap, comp, poolVars, pgVars >>

\* lines 237, 240: the task of port.stop() runs to its end
stop_task(l, ok) ==
    /\ pc["stop"] = "group"
    /\ ~Busy
    /\ l \in tasks["stop"]
    /\ stopCalls' = [ stopCalls EXCEPT ![l] = @ + 1 ]
    /\ lstate' = [ lstate EXCEPT ![l] = IF ok THEN "stopped" ELSE "stopfailed" ]
    /\ taskgroup_child_done("stop", l, IF ok THEN NoRes ELSE Err("StopError", l))
    /\ UNCHANGED << serverVars, cfgVars, nextPort, pc, res, loopVars, frameVars,
                    callVars, overlap, stale,
                    comp, poolVars, pgVars >>

\* line 235: the group is left
stop_group_exit ==
    /\ pc["stop"] = "group"
    /\ ~Busy
    /\ taskgroup_exit_ready("stop")
    /\ pc' = [ pc EXCEPT !["stop"] = "done" ]
    /\ res' = [ res EXCEPT !["stop"] = taskgroup_exit_result("stop") ]
    /\ UNCHANGED << serverVars, cfgVars, portVars, groupVars, loopVars, frameVars,
                    callVars, overlap, stale,
                    comp, poolVars, pgVars >>

\* ---------------------------------------------------------------- _stop_portconf
\* _stop_portconf with the pop of a missing key raising to the caller
stop_portconf_enter_keyerror ==
    /\ pc["ev"] = "stp_enter"
    /\ IF stp.portconf \notin DOMAIN sys_conf_ports
       THEN /\ pc' = [ pc EXCEPT !["ev"] = "done" ]
            /\ res' = [ res EXCEPT !["ev"] = Err("KeyError", 0) ]
            /\ UNCHANGED << sys_conf_ports, lstate, stopCalls, stp >>
       ELSE LET port == sys_conf_ports[stp.portconf] IN
            /\ sys_conf_ports' = Pop(sys_conf_ports, stp.portconf)
            /\ stp' = [ stp EXCEPT !.port = port ]
            /\ stopCalls' = [ stopCalls EXCEPT ![port] = @ + 1 ]
            /\ lstate' = [ lstate EXCEPT ![port] = "stopping" ]
            /\ pc' = [ pc EXCEPT !["ev"] = "stp_await" ]
            /\ UNCHANGED res
    /\ UNCHANGED << inited, serving, ports, sys_auth, cfgVars, nextPort,
                    groupVars, loopVars, spc, ev, callVars, overlap, stale,
                    comp, poolVars, pgVars >>

\* lines 146-153: from the call to the await of port.stop()
stop_portconf_enter ==
    /\ pc["ev"] = "stp_enter"
    /\ IF stp.portconf \notin DOMAIN sys_conf_ports
       THEN /\ stp' = [ stp EXCEPT !.outcome = "absent" ]
            /\ pc' = [ pc EXCEPT !["ev"] = "on_ret" ]
            /\ UNCHANGED << sys_conf_ports, lstate, stopCalls >>
       ELSE LET port == sys_conf_ports[stp.portconf] IN
            /\ sys_conf_ports' = Pop(sys_conf_ports, stp.portconf)
            /\ stp' = [ stp EXCEPT !.port = port ]
            /\ stopCalls' = [ stopCalls EXCEPT ![port] = @ + 1 ]
            /\ lstate' = [ lstate EXCEPT ![port] = "stopping" ]
            /\ pc' = [ pc EXCEPT !["ev"] = "stp_await" ]
    /\ UNCHANGED << inited, serving, ports, sys_auth, cfgVars, nextPort, res,
                    groupVars, loopVars, spc, ev, callVars, overlap, stale,
                    comp, poolVars, pgVars >>

\* lines 153-159: port.stop() returned (ok) or raised (~ok); both are only logged
stop_portconf_done(ok) ==
    /\ pc["ev"] = "stp_await"
    /\ ~Busy
    /\ lstate' = [ lstate EXCEPT ![stp.port] = IF ok THEN "stopped" ELSE "stopfailed" ]
    /\ stp' = [ stp EXCEPT !.outcome = IF ok THEN "stopped" ELSE "failed" ]
    /\ pc' = [ pc EXCEPT !["ev"] = "on_ret" ]
    /\ UNCHANGED << serverVars, cfgVars, stopCalls, nextPort, res, groupVars,
                    loopVars, spc, ev, callVars, overlap, stale,
                    comp, poolVars, pgVars >>

\* ---------------------------------------------------------------- config events
\* An 'auth' object is inserted when the configuration does not hold it and reset
\* when it does; a 'ports' object comes with any event.
\* lines 161-164
on_system_config_add(setting_name, value, auth) ==
    /\ CanBegin
    /\ pc["ev"] = "idle"
    /\ inited
    /\ setting_name = "ports" => nextPort <= MaxPort
    /\ setting_name = "auth" => auth \cap cfgAuth = {} /\ Cardinality(cfgAuth) < MaxAuth
    /\ ev' = [ kind |-> "add", setting |-> setting_name, value |-> value, auth |-> auth ]
    /\ IF setting_name = "ports"
       THEN /\ spc' = [ spc EXCEPT !["ev"] = [ NoFrame EXCEPT !.portconf = value ] ]
            /\ pc' = [ pc EXCEPT !["ev"] = "spc_enter" ]
       ELSE /\ pc' = [ pc EXCEPT !["ev"] = "on_ret" ]
            /\ UNCHANGED spc
    /\ stale' = IF pc["stop"] = "group" THEN stale \cup {"ev"} ELSE stale \ {"ev"}
    /\ UNCHANGED << serverVars, cfgVars, portVars, res, groupVars, loopVars, stp,
                    callVars, overlap,
                    comp, poolVars, pgVars >>

\* line 164: _start_portconf returned to the handler
on_system_config_add_return ==
    /\ pc["ev"] = "spc_ret"
    /\ pc' = [ pc EXCEPT !["ev"] = "on_ret" ]
    /\ UNCHANGED << serverVars, cfgVars, portVars, res, groupVars, loopVars,
                    frameVars, callVars, overlap, stale,
                    comp, poolVars, pgVars >>

\* lines 166-169
on_system_config_rem(setting_name, value, auth) ==
    /\ CanBegin
    /\ pc["ev"] = "idle"
    /\ inited
    /\ setting_name = "auth" => auth \subseteq cfgAuth
    /\ ev' = [ kind |-> "rem", setting |-> setting_name, value |-> value, auth |-> auth ]
    /\ IF setting_name = "ports"
       THEN /\ stp' = [ NoStop EXCEPT !.portconf = value ]
            /\ pc' = [ pc EXCEPT !["ev"] = "stp_enter" ]
       ELSE /\ pc' = [ pc EXCEPT !["ev"] = "on_ret" ]
            /\ UNCHANGED stp
    /\ stale' = IF pc["stop"] = "group" THEN stale \cup {"ev"} ELSE stale \ {"ev"}
    /\ UNCHANGED << serverVars, cfgVars, portVars, res, groupVars, loopVars, spc,
                    callVars, overlap,
                    comp, poolVars, pgVars >>

\* lines 171-173
on_system_config_set(setting_name) ==
    /\ CanBegin
    /\ pc["ev"] = "idle"
    /\ inited
    /\ ev' = [ NoEvent EXCEPT !.kind = "set", !.setting = setting_name ]
    /\ pc' = [ pc EXCEPT !["ev"] = "on_ret" ]
    /\ stale' = IF pc["stop"] = "group" THEN stale \cup {"ev"} ELSE stale \ {"ev"}
    /\ UNCHANGED << serverVars, cfgVars, portVars, res, groupVars, loopVars, spc, stp,
                    callVars, overlap,
                    comp, poolVars, pgVars >>

\* lines 175-177
on_system_config_reset(setting_name) ==
    /\ CanBegin
    /\ pc["ev"] = "idle"
    /\ inited
    /\ ev' = [ NoEvent EXCEPT !.kind = "reset", !.setting = setting_name ]
    /\ pc' = [ pc EXCEPT !["ev"] = "on_ret" ]
    /\ stale' = IF pc["stop"] = "group" THEN stale \cup {"ev"} ELSE stale \ {"ev"}
    /\ UNCHANGED << serverVars, cfgVars, portVars, res, groupVars, loopVars, spc, stp,
                    callVars, overlap,
                    comp, poolVars, pgVars >>

\* The listeners that the server or a coroutine other than t still refers to.
Referenced(t) ==
    Range(ports) \cup Values(sys_conf_ports)
    \cup UNION { tasks[g] : g \in (DOMAIN tasks) \ {t} }
    \cup { spc[c].port : c \in Callers \ {t} }
    \cup (IF t = "ev" THEN {} ELSE {stp.port})

\* A listener object that nothing refers to any more and that is not running
\* is released: no call can reach it again.
Released(t, l) ==
    /\ lstate[l] \notin {"none", "starting", "started"}
    /\ l \notin Referenced(t)

\* The DatabaseIndex applies the operation to the system configuration once the
\* _on_ handler has returned, and then calls the _after_ hook.
apply_config_op ==
    /\ cfgPorts' =
         IF ev.setting # "ports" THEN cfgPorts
         ELSE IF ev.kind = "add"
              THEN IF ev.value \in Range(cfgPorts) THEN cfgPorts
                   ELSE Append(cfgPorts, ev.value)
         ELSE IF ev.kind = "rem"
              THEN SelectSeq(cfgPorts, LAMBDA c : c # ev.value)
         ELSE cfgPorts
    /\ cfgAuth' =
         IF ev.setting # "auth" THEN cfgAuth
         ELSE IF ev.kind = "add" THEN cfgAuth \cup ev.auth
         ELSE IF ev.kind = "rem" THEN cfgAuth \ ev.auth
         ELSE cfgAuth

\* The hook returns and with it the handling of the event: its frames are dropped.
AfterReturn ==
    /\ pc' = [ pc EXCEPT !["ev"] = "idle" ]
    /\ ev' = NoEvent
    /\ stp' = NoStop
    /\ spc' = [ spc EXCEPT !["ev"] = NoFrame ]
    /\ lstate' = [ l \in PortIds |-> IF Released("ev", l) THEN "released" ELSE lstate[l] ]
    /\ stopCalls' = [ l \in PortIds |-> IF Released("ev", l) THEN 0 ELSE stopCalls[l] ]
    /\ stale' = stale \ {"ev"}
    /\ UNCHANGED << inited, serving, ports, sys_conf_ports, nextPort, res,
                    groupVars, loopVars, callVars, overlap,
                    comp, poolVars, pgVars >>

\* lines 179-182
after_system_config_add ==
    /\ pc["ev"] = "on_ret"
    /\ ~Busy
    /\ ev.kind = "add"
    /\ apply_config_op
    /\ IF ev.setting = "auth" THEN populate_sys_auth(cfgAuth') ELSE UNCHANGED sys_auth
    /\ AfterReturn

\* the hook of a remove event that leaves the snapshot of the auth rules alone
after_system_config_rem_nopopulate ==
    /\ pc["ev"] = "on_ret"
    /\ ~Busy
    /\ ev.kind = "rem"
    /\ apply_config_op
    /\ UNCHANGED sys_auth
    /\ AfterReturn

\* lines 184-187
after_system_config_rem ==
    /\ pc["ev"] = "on_ret"
    /\ ~Busy
    /\ ev.kind = "rem"
    /\ apply_config_op
    /\ IF ev.setting = "auth" THEN populate_sys_auth(cfgAuth') ELSE UNCHANGED sys_auth
    /\ AfterReturn

\* lines 189-191
after_system_config_set ==
    /\ pc["ev"] = "on_ret"
    /\ ~Busy
    /\ ev.kind = "set"
    /\ apply_config_op
    /\ UNCHANGED sys_auth
    /\ AfterReturn

\* lines 193-195
after_system_config_reset ==
    /\ pc["ev"] = "on_ret"
    /\ ~Busy
    /\ ev.kind = "reset"
    /\ apply_config_op
    /\ UNCHANGED sys_auth
    /\ AfterReturn

\* ---------------------------------------------------------------- callers
\* The caller of a coroutine takes its result; the frames of the call are dropped.
Finish(t) ==
    /\ pc[t] = "done"
    /\ ~Busy
    /\ pc' = [ pc EXCEPT ![t] = "idle" ]
    /\ res' = [ res EXCEPT ![t] = NoRes ]
    /\ tasks' = IF t \in DOMAIN tasks THEN [ tasks EXCEPT ![t] = {} ] ELSE tasks
    /\ gerr' = IF t \in DOMAIN gerr THEN [ gerr EXCEPT ![t] = NoRes ] ELSE gerr
    /\ spc' = IF t \in Callers THEN [ spc EXCEPT ![t] = NoFrame ] ELSE spc
    /\ IF t = "start"
       THEN loopConfs' = << >> /\ loopIdx' = 0 /\ built' = {}
       ELSE UNCHANGED loopVars
    /\ IF t = "ev"
       THEN stp' = NoStop /\ ev' = NoEvent
       ELSE UNCHANGED << stp, ev >>
    /\ authCall' = IF t = "auth" THEN NoAuthCall ELSE authCall
    /\ lstate' = [ l \in PortIds |-> IF Released(t, l) THEN "released" ELSE lstate[l] ]
    /\ stopCalls' = [ l \in PortIds |-> IF Released(t, l) THEN 0 ELSE stopCalls[l] ]
    /\ stale' = stale \ {t}
    /\ comp' = IF t = "compiler" THEN NoComp ELSE comp
    /\ UNCHANGED << serverVars, cfgVars, nextPort, overlap, poolVars, pgVars >>

Next ==
    \/ init
    \/ add_port
    \/ GetAuthMethod
    \/ start_begin
    \/ \E l \in PortIds, ok \in BOOLEAN : start_task(l, ok)
    \/ start_group_exit
    \/ start_loop
    \/ start_loop_next
    \/ \E t \in Callers : start_portconf_enter(t)
    \/ \E t \in Callers : start_portconf_started(t)
    \/ \E t \in Callers : start_portconf_failed(t)
    \/ \E t \in Callers, ok \in BOOLEAN : start_portconf_cleanup(t, ok)
    \/ stop_begin
    \/ \E l \in PortIds, ok \in BOOLEAN : stop_task(l, ok)
    \/ stop_group_exit
    \/ \E v \in PortConfs : on_system_config_add("ports", v, {})
    \/ \E a \in SomeAuthObjects : on_system_config_add("auth", "none", {a})
    \/ on_system_config_add_return
    \/ \E v \in PortConfs : on_system_config_rem("ports", v, {})
    \/ \E a \in SomeAuthObjects : on_system_config_rem("auth", "none", {a})
    \/ stop_portconf_enter
    \/ \E ok \in BOOLEAN : stop_portconf_done(ok)
    \/ on_system_config_set("other")
    \/ on_system_config_reset("other")
    \/ after_system_config_add
    \/ after_system_config_rem
    \/ after_system_config_set
    \/ after_system_config_reset
    \/ \E t \in Threads : Finish(t)

Spec == Init /\ [][Next]_vars

\* ---------------------------------------------------------------- auth alone
\* The auth rules alone, over larger rule sets: no listener is configured.
InitAuth ==
    /\ inited = FALSE
    /\ serving = FALSE
    /\ ports = << >>
    /\ sys_conf_ports = << >>
    /\ sys_auth = << >>
    /\ cfgPorts = << >>
    /\ cfgAuth \in { S \in SUBSET AuthObjects : Cardinality(S) <= MaxAuthRules }
    /\ lstate = [ l \in PortIds |-> "none" ]
    /\ stopCalls = [ l \in PortIds |-> 0 ]
    /\ nextPort = 1
    /\ pc = [ t \in Threads |-> "idle" ]
    /\ res = [ t \in Threads |-> NoRes ]
    /\ tasks = [ t \in {"start", "stop"} |-> {} ]
    /\ gerr = [ t \in {"start", "stop"} |-> NoRes ]
    /\ loopConfs = << >>
    /\ loopIdx = 0
    /\ built = {}
    /\ spc = [ t \in Callers |-> NoFrame ]
    /\ stp = NoStop
    /\ ev = NoEvent
    /\ authCall = NoAuthCall
    /\ overlap = FALSE
    /\ stale = {}
    /\ wstate = [ w \in Workers |-> "none" ]
    /\ wbound = [ w \in Workers |-> NoBinding ]
    /\ nextWorker = 1
    /\ comp = NoComp
    /\ pg_con_spec = DefaultPgConSpec
    /\ pg_addr \in get_pgaddr(DefaultPgConSpec)

NextAuth ==
    \/ init
    \/ GetAuthMethod
    \/ \E a \in AuthObjects : on_system_config_add("auth", "none", {a})
    \/ \E a \in AuthObjects : on_system_config_rem("auth", "none", {a})
    \/ after_system_config_add
    \/ after_system_config_rem
    \/ Finish("ev")
    \/ Finish("auth")

SpecAuth == InitAuth /\ [][NextAuth]_vars

\* ---------------------------------------------------------------- overlapping calls
\* start(), stop(), add_port and the add events for 'ports', where a call may
\* begin while another one is suspended at an await.  One object is configured,
\* and start() is not called while stop() is running.
ConcConfs == {"conf_graphql"}

InitConc ==
    /\ Constructed
    /\ cfgPorts \in DistinctSeqs(ConcConfs, MaxCfgPorts)
    /\ cfgAuth = {}
    /\ overlap = TRUE
    /\ pg_con_spec = DefaultPgConSpec
    /\ pg_addr \in get_pgaddr(DefaultPgConSpec)

NextConc ==
    \/ init
    \/ add_port
    \/ pc["stop"] # "group" /\ start_begin
    \/ \E l \in PortIds, ok \in BOOLEAN : start_task(l, ok)
    \/ start_group_exit
    \/ start_loop
    \/ start_loop_next
    \/ \E t \in Callers : start_portconf_enter(t)
    \/ \E t \in Callers : start_portconf_started(t)
    \/ \E t \in Callers : start_portconf_failed(t)
    \/ \E t \in Callers, ok \in BOOLEAN : start_portconf_cleanup(t, ok)
    \/ stop_begin
    \/ \E l \in PortIds, ok \in BOOLEAN : stop_task(l, ok)
    \/ stop_group_exit
    \/ \E v \in ConcConfs : on_system_config_add("ports", v, {})
    \/ on_system_config_add_return
    \/ after_system_config_add
    \/ \E t \in Threads : Finish(t)

SpecConc == InitConc /\ [][NextConc]_vars

\* ---------------------------------------------------------------- compilers alone
\* new_compiler needs nothing of the server but self._compiler_manager.
InitCompiler ==
    /\ Constructed
    /\ cfgPorts = << >>
    /\ cfgAuth = {}
    /\ overlap = FALSE
    /\ pg_con_spec = DefaultPgConSpec
    /\ pg_addr \in get_pgaddr(DefaultPgConSpec)

NextCompiler ==
    \/ \E dbname \in Databases, dbver \in DbVersions : new_compiler_begin(dbname, dbver)
    \/ \E ok \in BOOLEAN : new_compiler_spawned(ok)
    \/ new_compiler_connected
    \/ new_compiler_connect_failed
    \/ new_compiler_closed
    \/ \E w \in Workers : release_worker(w)
    \/ Finish("compiler")

SpecCompiler == InitCompiler /\ [][NextCompiler]_vars

\* ---------------------------------------------------------------- address alone
\* __init__ at line 52, for every connection spec the cluster can hand out
InitAddr ==
    /\ Constructed
    /\ cfgPorts = << >>
    /\ cfgAuth = {}
    /\ overlap = FALSE
    /\ pg_con_spec \in PgConSpecs
    /\ pg_addr = NoAddr

NextAddr == set_pg_addr

SpecAddr == InitAddr /\ [][NextAddr]_vars

\* ================================================================ claims
KnownProtocols == {"graphql+http", "edgeql+http"}
IsPrefix(s, t) == Len(s) <= Len(t) /\ \A i \in 1..Len(s) : s[i] = t[i]

\* C1: _start_portconf called for a configuration object that is already a key
\* of self._sys_conf_ports returns at once: it constructs and starts no listener,
\* raises nothing and leaves the map as it is.
C1_StartKnownPortconfIsNoop ==
    [][ \A t \in Callers :
          ( /\ pc[t] = "spc_enter"
            /\ spc[t].portconf \in DOMAIN sys_conf_ports
            /\ pc'[t] # "spc_enter" )
          => /\ pc'[t] = "spc_ret"
             /\ spc'[t].ret = "None"
             /\ res' = res
             /\ nextPort' = nextPort
             /\ lstate' = lstate
             /\ stopCalls' = stopCalls
             /\ sys_conf_ports' = sys_conf_ports ]_vars

\* an add event for 'ports' found its object in the map and returned
C1_Witness ==
    /\ pc["ev"] = "spc_ret"
    /\ spc["ev"].ret = "None"
    /\ spc["ev"].portconf \in DOMAIN sys_conf_ports
    /\ lstate[sys_conf_ports[spc["ev"].portconf]] = "started"

\* C2: _stop_portconf, and the remove event for 'ports' that calls it, with a
\* configuration object that is not a key of the map raises nothing, calls stop()
\* on no listener and leaves the map, the static ports, the auth rules and the
\* serving flag as they are.
RemAbsent ==
    /\ ev.kind = "rem"
    /\ ev.setting = "ports"
    /\ \/ pc["ev"] = "stp_enter" /\ stp.portconf \notin DOMAIN sys_conf_ports
       \/ pc["ev"] = "on_ret" /\ stp.outcome = "absent"

C2_StopUnknownPortconfIsNoop ==
    [][ RemAbsent
        => /\ ~IsErr(res'["ev"])
           /\ pc'["ev"] \in {"on_ret", "idle"}
           /\ stopCalls' = stopCalls
           /\ lstate' = lstate
           /\ sys_conf_ports' = sys_conf_ports
           /\ ports' = ports
           /\ sys_auth' = sys_auth
           /\ serving' = serving ]_vars

\* the handler of a remove event for a 'ports' object that has no listener has
\* returned, while another listener is recorded
C2_Witness ==
    /\ pc["ev"] = "on_ret"
    /\ res["ev"] = NoRes
    /\ ev.kind = "rem"
    /\ ev.setting = "ports"
    /\ stp.outcome = "absent"
    /\ sys_conf_ports # << >>

\* C3 (as claimed): when start() has ended and the listener of a configured
\* 'ports' entry failed to start in it, start() returned without raising, serving
\* is true and every configured entry has its listener recorded, whatever the
\* cleanup stop() of the failed listener did.  The configured protocols are known.
C3_StartSurvivesFailedPortconf ==
    ( /\ pc["start"] = "done"
      /\ \A i \in 1..Len(loopConfs) : protocol(loopConfs[i]) \in KnownProtocols
      /\ \E l \in built : lstate[l] \in {"stopped", "stopfailed"} )
    => /\ res["start"] = Ok
       /\ serving
       /\ Range(loopConfs) \subseteq DOMAIN sys_conf_ports

\* C4 (as claimed): when an add event for 'ports' has ended and the start() of its
\* listener failed, stop() was called on that listener, the error raised to the
\* caller is the error of start(), and the object is not in the map.
C4_AddRaisesStartError ==
    ( /\ pc["ev"] = "done"
      /\ ev.kind = "add"
      /\ ev.setting = "ports"
      /\ IsErr(spc["ev"].ex) )
    => /\ stopCalls[spc["ev"].port] = 1
       /\ res["ev"] = spc["ev"].ex
       /\ spc["ev"].portconf \notin DOMAIN sys_conf_ports

\* C5: when stop() has ended, also when the stop() of some listener raised, stop()
\* has been called and has finished on every listener the server held, and the
\* static ports and the map are empty.
C5_StopReachesEveryListener ==
    pc["stop"] = "done"
    => /\ ports = << >>
       /\ sys_conf_ports = << >>
       /\ tasks["stop"] = {}
       /\ \A l \in PortIds :
            lstate[l] \notin {"none", "released"}
            => lstate[l] \in {"stopped", "stopfailed"} /\ stopCalls[l] >= 1

\* stop() has ended after the stop() of one listener raised and the stop() of
\* another one returned
C5_Witness ==
    /\ pc["stop"] = "done"
    /\ IsErr(gerr["stop"])
    /\ \E l1, l2 \in PortIds :
         /\ lstate[l1] = "stopfailed"
         /\ lstate[l2] = "stopped"
         /\ stopCalls[l2] = 1

\* C6 (as claimed): stop() never raises to its caller.
C6_StopNeverRaises ==
    pc["stop"] = "done" => res["stop"] = Ok

\* C7: add_port called while serving raises and leaves the static ports as they
\* are; called while not serving it appends exactly one new listener.  No step
\* taken while serving adds an element to the static ports.
C7_AddPortOnlyBeforeServing ==
    [][ /\ ( pc["add_port"] = "idle" /\ pc'["add_port"] = "done" )
           => IF serving
              THEN /\ res'["add_port"] = Err("RuntimeError", 0)
                   /\ ports' = ports
              ELSE /\ res'["add_port"] = Ok
                   /\ Len(ports') = Len(ports) + 1
                   /\ IsPrefix(ports, ports')
                   /\ ports'[Len(ports')] \notin Range(ports)
        /\ serving => Range(ports') \subseteq Range(ports) ]_vars

\* add_port has been refused while the server was serving with a static port
C7_Witness ==
    /\ pc["add_port"] = "done"
    /\ res["add_port"] = Err("RuntimeError", 0)
    /\ serving
    /\ ports # << >>

\* C8: serving becomes true only when the start() of every static port has
\* returned and every configured 'ports' entry has had the start() of its listener
\* tried; and when the start() of a static port failed, start() raised the error
\* of a failed static port, serving is false and the call constructed no dynamic
\* listener.
C8_ServingOnlyAfterStart ==
    /\ [][ ( ~serving /\ serving' )
           => /\ pc["start"] = "loop"
              /\ \A l \in Range(ports') : lstate'[l] = "started"
              /\ \A c \in Range(loopConfs) :
                   /\ c \in DOMAIN sys_conf_ports'
                   /\ lstate'[sys_conf_ports'[c]] \in {"started", "stopped"} ]_vars
    /\ []( ( /\ pc["start"] = "done"
             /\ \E l \in Range(ports) : lstate[l] = "startfailed" )
           => /\ res["start"].kind = "StartError"
              /\ res["start"].who \in Range(ports)
              /\ lstate[res["start"].who] = "startfailed"
              /\ ~serving
              /\ built = {} )

\* start() has ended with serving true after a static port and two configured
\* ports were started
C8_Witness ==
    /\ pc["start"] = "done"
    /\ serving
    /\ ports # << >>
    /\ Len(loopConfs) = 2
    /\ Cardinality(built) = 2

\* C9: on a non-empty authlist get_auth_method returns the method of a rule of the
\* lowest priority number among the rules whose user set holds the user or '*' and
\* whose database set holds the database or '*', and None when no rule matches.
Matching(rules, user, database) ==
    { r \in rules : /\ (user \in r.user \/ "*" \in r.user)
                    /\ (database \in r.database \/ "*" \in r.database) }

LowestPriority(rules) ==
    { r \in rules : \A q \in rules : r.priority <= q.priority }

C9_AuthMethodOfLowestPriority ==
    ( pc["auth"] = "done" /\ authCall.authlist # << >> )
    => LET m == Matching(Range(authCall.authlist), authCall.user, authCall.database)
       IN  IF m = {} THEN authCall.result = "None"
           ELSE authCall.result \in { r.method : r \in LowestPriority(m) }

\* with the rules {*,*,10,M1} and {alice,*,1,M2}, alice has resolved to M2
C9_Witness ==
    /\ pc["auth"] = "done"
    /\ authCall.user = "alice"
    /\ { r.method : r \in Range(authCall.authlist) } = {"M1", "M2"}
    /\ authCall.result = "M2"

\* C10: on an empty authlist get_auth_method returns the default method SCRAM for
\* every user and every database, and never None.
C10_EmptyAuthlistGivesScram ==
    ( pc["auth"] = "done" /\ authCall.authlist = << >> )
    => authCall.result = "SCRAM"

\* after init() on a configuration without 'auth' objects, a call has resolved
C10_Witness ==
    /\ pc["auth"] = "done"
    /\ inited
    /\ cfgAuth = {}
    /\ authCall.authlist = << >>
    /\ authCall.user = "bob"
    /\ authCall.result = "SCRAM"

\* C11: when new_compiler has ended after call('connect', ...) raised, the worker
\* it spawned is closed, no worker was returned, and the live workers are those of
\* before the call; the error raised is the error of the call.  When it has ended
\* without an error, exactly one worker was added to the live ones: the one that
\* is returned, bound to the database and version asked for, and open.
C11_NewCompilerClosesUnboundWorker ==
    pc["compiler"] = "done"
    => /\ ( IsErr(res["compiler"]) /\ comp.worker # 0 )
          => /\ wstate[comp.worker] = "closed"
             /\ comp.ret = 0
             /\ Live = comp.live
             /\ res["compiler"] = comp.ex
       /\ ( IsErr(res["compiler"]) /\ comp.worker = 0 )
          => comp.ret = 0 /\ Live = comp.live
       /\ res["compiler"] = Ok
          => /\ comp.ret = comp.worker
             /\ comp.ret \notin comp.live
             /\ Live = comp.live \cup {comp.ret}
             /\ wstate[comp.ret] = "bound"
             /\ wbound[comp.ret] = [dbname |-> comp.dbname, dbver |-> comp.dbver]

\* new_compiler has ended with the error of call('connect', ...) while a worker
\* of an earlier call is live: the new worker is closed, the earlier one is not
C11_Witness ==
    /\ pc["compiler"] = "done"
    /\ res["compiler"].kind = "ConnectError"
    /\ wstate[comp.worker] = "closed"
    /\ comp.live # {}
    /\ Live = comp.live

\* C12: _start_portconf called for a configuration object that is not in the map
\* and whose protocol is unknown raises to its caller, with suppress_errors true
\* as with suppress_errors false: it constructs and starts no listener and leaves
\* the map as it is.
C12_UnknownProtocolRaises ==
    [][ \A t \in Callers :
          ( /\ pc[t] = "spc_enter"
            /\ spc[t].portconf \notin DOMAIN sys_conf_ports
            /\ protocol(spc[t].portconf) \notin KnownProtocols
            /\ pc'[t] # "spc_enter" )
          => /\ pc'[t] = "done"
             /\ res'[t].kind = "InvalidReferenceError"
             /\ nextPort' = nextPort
             /\ lstate' = lstate
             /\ sys_conf_ports' = sys_conf_ports ]_vars

\* start() called _start_portconf with suppress_errors=True for an object of an
\* unknown protocol, and the error left it
C12_Witness ==
    /\ pc["start"] = "done"
    /\ spc["start"].suppress
    /\ protocol(spc["start"].portconf) \notin KnownProtocols
    /\ res["start"].kind = "InvalidReferenceError"
    /\ spc["start"].port = 0

\* C13 (as claimed): when start() has ended after walking the configured 'ports',
\* one of which is a bad object (here: one of an unknown protocol), the bad object
\* was skipped: start() returned without raising, the objects of a known protocol
\* have their listeners recorded and serving is true.  The case in which a cleanup
\* stop() raised is left out.
C13_StartSkipsBadPortconf ==
    ( /\ pc["start"] = "done"
      /\ ~IsErr(gerr["start"])
      /\ \E i \in 1..Len(loopConfs) : protocol(loopConfs[i]) \notin KnownProtocols
      /\ \A l \in built : lstate[l] # "stopfailed" )
    => /\ res["start"] = Ok
       /\ serving
       /\ \A i \in 1..Len(loopConfs) :
            protocol(loopConfs[i]) \in KnownProtocols
            => loopConfs[i] \in DOMAIN sys_conf_ports

\* C14 (as claimed): over every sequence of start(), stop() and add and remove
\* events for 'ports', stop() is called at most once on every listener object,
\* the listener of a configured object whose start() failed and that was cleaned
\* up included.
C14_StopCalledAtMostOnce ==
    \A l \in PortIds : stopCalls[l] <= 1

\* a connection spec that gives no host or no port
HasQueryValue(query, name) ==
    \E i \in 1..Len(query) : query[i].name = name /\ query[i].value # ""

MissingHostOrPort(spec) ==
    IF spec.host = Absent /\ spec.dsn.present
    THEN ~HasQueryValue(spec.dsn.query, "host") \/ ~HasQueryValue(spec.dsn.query, "port")
    ELSE spec.host = Absent \/ spec.port = Absent

\* C15 (as claimed): _get_pgaddr raises, and yields no address, whenever the
\* connection spec gives no usable host or no usable port: a spec read by its keys
\* that has no 'host' or no 'port', or a DSN whose query has no 'host' or no 'port'
\* value.  No address is built from a missing value.
C15_NoAddressFromMissingValue ==
    ( pg_addr # NoAddr /\ MissingHostOrPort(pg_con_spec) ) => pg_addr.kind # "addr"

\* the snapshot holds the auth objects of the configuration, by priority
SysAuthIsSnapshot ==
    /\ Range(sys_auth) = cfgAuth
    /\ Len(sys_auth) = Cardinality(cfgAuth)
    /\ \A i, j \in 1..Len(sys_auth) :
         i < j => sys_auth[i].priority <= sys_auth[j].priority

\* C16: before init() the snapshot self._sys_auth is empty; from init() on, and so
\* after every hook of an add or remove event for 'auth', it holds exactly the auth
\* objects of the system configuration, each once, in ascending order of priority.
\* It is replaced as a whole, and by init() and those two hooks only: no event for
\* 'ports', no set or reset event, no start(), stop() or add_port changes it.
C16_SysAuthFollowsConfig ==
    /\ [](IF inited THEN SysAuthIsSnapshot ELSE sys_auth = << >>)
    /\ [][ sys_auth' # sys_auth
           => \/ ~inited /\ inited'
              \/ /\ pc["ev"] = "on_ret"
                 /\ pc'["ev"] = "idle"
                 /\ ev.setting = "auth"
                 /\ ev.kind \in {"add", "rem"} ]_vars

\* the snapshot holds two rules, the one of priority 1 before the one of priority
\* 10, while the server is serving with a configured listener
C16_Witness ==
    /\ inited
    /\ Len(sys_auth) = 2
    /\ sys_auth[1].priority < sys_auth[2].priority
    /\ serving
    /\ sys_conf_ports # << >>

\* C17 (as claimed): _start_portconf records the configuration object in the map,
\* with its listener, when the listener's start() returned, and also when start()
\* raised under suppress_errors=True: the map then holds the listener, on which
\* stop() has been called once.  When start() raised without suppress_errors the
\* object is not recorded.  An add event for an object recorded with a stopped
\* listener is a no-op: no listener is constructed or started for it.
C17_RecordedAfterStartOrSuppressedFailure ==
    [][ /\ \A t \in Callers :
             LET f == spc[t] IN
             /\ ( pc[t] = "spc_start" /\ lstate'[f.port] = "started" )
                => /\ sys_conf_ports' = Put(sys_conf_ports, f.portconf, f.port)
                   /\ pc'[t] = "spc_ret"
             /\ ( pc[t] = "spc_cleanup" /\ pc'[t] # "spc_cleanup" /\ f.suppress )
                => /\ sys_conf_ports' = Put(sys_conf_ports, f.portconf, f.port)
                   /\ pc'[t] = "spc_ret"
                   /\ stopCalls'[f.port] = 1
             /\ ( pc[t] = "spc_cleanup" /\ pc'[t] # "spc_cleanup" /\ ~f.suppress )
                => /\ sys_conf_ports' = sys_conf_ports
                   /\ f.portconf \notin DOMAIN sys_conf_ports'
                   /\ pc'[t] = "done"
                   /\ IsErr(res'[t])
        /\ ( /\ pc["ev"] = "spc_enter"
             /\ spc["ev"].portconf \in DOMAIN sys_conf_ports
             /\ lstate[sys_conf_ports[spc["ev"].portconf]] = "stopped"
             /\ pc'["ev"] # "spc_enter" )
           => /\ pc'["ev"] = "spc_ret"
              /\ nextPort' = nextPort
              /\ lstate' = lstate
              /\ sys_conf_ports' = sys_conf_ports ]_vars

\* C18 (as claimed): when two calls of _start_portconf, one from the loop of
\* start() and one from an add event, have each constructed a listener for the
\* same configuration object, at most one of the two listeners is started, and
\* every one of them that is started and has not been handed to stop() is a value
\* of the map or one of the static ports: none is orphaned by an overwrite of the
\* map.
C18_OneListenerPerPortconf ==
    \A t1, t2 \in Callers :
      LET f1 == spc[t1]
          f2 == spc[t2]
      IN  ( /\ t1 # t2
            /\ f1.portconf = f2.portconf
            /\ f1.port # 0
            /\ f2.port # 0
            /\ {f1.port, f2.port} \cap tasks["stop"] = {} )
          => /\ ~(lstate[f1.port] = "started" /\ lstate[f2.port] = "started")
             /\ \A l \in {f1.port, f2.port} :
                  lstate[l] = "started"
                  => l \in Values(sys_conf_ports) \cup Range(ports)

\* the listeners constructed by the call of t that is in flight
BuiltBy(t) == (IF t = "start" THEN built ELSE {}) \cup ({spc[t].port} \ {0})

\* C19 (as claimed): while stop() is running serving is false, and serving is set
\* to true only by a start() that was called after the last stop() returned.  Once
\* stop() has returned, no listener constructed by a call that was in flight
\* before it returned is started or is a value of the map.
C19_StopWins ==
    /\ [](pc["stop"] = "group" => ~serving)
    /\ [](\A t \in stale :
            pc["stop"] # "group"
            => \A l \in BuiltBy(t) :
                 lstate[l] # "started" /\ l \notin Values(sys_conf_ports))
    /\ [][ (~serving /\ serving') => "start" \notin stale ]_vars

\* C20 (as claimed): whenever serving is true, start() has been called and has
\* returned on every listener of the static ports, one registered by add_port
\* while start() was suspended included.
C20_ServingStaticPortsStarted ==
    serving => \A l \in Range(ports) : lstate[l] = "started"

====
